---- MODULE Spec2Model ----
(***************************************************************************)
(* Order lifecycle, pricing, table registry and payment settlement of the  *)
(* RMS point-of-sale core, modelled from its request handlers.             *)
(*                                                                         *)
(* The persisted state is the four tables of the database the handlers     *)
(* read and write through Prisma: tables, orders, order items, payments.   *)
(* Every handler is an operator from a database value (and the request's   *)
(* inputs) to the database value and the HTTP response it produces.        *)
(*  - Spec, SpecTables run each request to completion before the next one  *)
(*    starts (serial execution).                                           *)
(*  - SpecConc runs the Settle and AddItems handlers one Prisma call at a  *)
(*    time, so that two requests interleave at their await points.         *)
(*                                                                         *)
(* Money is a JS number in the code.  Here it is an integer number of      *)
(* millionths of the currency unit (Cent = 10000), in which every price in *)
(* cents, every whole-percent discount of it and the 13% tax on that are   *)
(* exact; floating-point representation error is not modelled.             *)
(***************************************************************************)
EXTENDS Integers, Sequences, FiniteSets, TLC

VARIABLES
    tables,     \* Table rows: id -> [status, mergedWithId]
    orders,     \* Order rows: sequence, the order id is the index
    items,      \* OrderItem rows: sequence, the item id is the index
    payments,   \* Payment rows: set of [orderId, amount, method]
    menu,       \* MenuItem rows: id -> [price, printStation]
    resp,       \* the HTTP response of the request that completed last
    trip,       \* history: the open first half of a round trip (see TripNext)
    reqs        \* SpecConc: the requests in flight, one per slot

vars == <<tables, orders, items, payments, menu, resp, trip, reqs>>

----------------------------------------------------------------------------
(* Bounds of the model *)

MaxOrders == 1
MaxItems == 2
MaxConcItems == 3
MaxBundleItems == 4

(* Units *)
Cent == 100 * 100
Dollar == 100 * Cent

NULL == "NULL"
None == <<>>
Some(v) == <<v>>

TAX_PERCENT == 13

TableIds == {"T1", "T2", "T3", "T4"}
TableStatuses == {"VACANT", "OCCUPIED", "RESERVED", "ORDER_PENDING"}
OrderStatuses == {"CREATED", "PREPARING", "READY", "SERVED", "PAID", "CANCELLED"}
ActiveStatuses == {"CREATED", "PREPARING", "READY", "SERVED"}
ItemStatuses == {"PENDING", "PREPARING", "READY", "SERVED"}
OrderTypes == {"DINE_IN", "TO_GO", "QUICK_SALE"}
Roles == {"OWNER", "SUPERVISOR", "FLOOR_STAFF", "KITCHEN_STAFF"}
Methods == {"CASH", "CARD"}

(* The catalog the handlers read prices and print stations from. *)
MenuInit ==
    [M1 |-> [price |-> 10 * Dollar, printStation |-> "KITCHEN"],
     M2 |-> [price |-> 5 * Dollar, printStation |-> "NO_PRINT"]]
MenuIds == DOMAIN MenuInit

(* The state of the database after setup: the fixed set of tables. *)
TablesInit == [t \in TableIds |-> [status |-> "VACANT", mergedWithId |-> NULL]]

DB ==
    [tables |-> tables, orders |-> orders, items |-> items, payments |-> payments,
     menu |-> menu]

DeletedItem ==
    [orderId |-> 0, menuItemId |-> NULL, price |-> 0, quantity |-> 0,
     status |-> "DELETED"]

----------------------------------------------------------------------------
(* Helpers over rows *)

RECURSIVE SumOver(_, _)
SumOver(S, f) ==
    IF S = {} THEN 0
    ELSE LET x == CHOOSE y \in S : TRUE
         IN  f[x] + SumOver(S \ {x}, f)

(* order.items of `include: { items: true }` *)
OrderItemIds(db, o) == {i \in DOMAIN db.items : db.items[i].orderId = o}

(* the sum taken with the catalog's price of each item's menu item *)
ItemsSubtotal_LivePrice(db, o) ==
    SumOver(OrderItemIds(db, o),
            [i \in DOMAIN db.items |->
                db.menu[db.items[i].menuItemId].price * db.items[i].quantity])

(* items.reduce((sum, item) => sum + item.price * item.quantity, 0) *)
ItemsSubtotal(db, o) ==
    SumOver(OrderItemIds(db, o),
            [i \in DOMAIN db.items |-> db.items[i].price * db.items[i].quantity])

OrderExists(db, o) == o \in DOMAIN db.orders

HasPayment(db, o) == \E p \in db.payments : p.orderId = o

Min(a, b) == IF a <= b THEN a ELSE b
Max(a, b) == IF a >= b THEN a ELSE b

(* (x * p) / 100 for an amount x that is a multiple of 100 units *)
Percent(x, p) == (x \div 100) * p

----------------------------------------------------------------------------
(* Responses *)

Unauthorized(op) == [op |-> op, code |-> 401, error |-> "Unauthorized"]
Failed(op) == [op |-> op, code |-> 500, error |-> "Failed"]

StaffRoles == {"OWNER", "SUPERVISOR", "FLOOR_STAFF"}

----------------------------------------------------------------------------
(* CreateOrder: POST /api/orders *)

(* items.reduce((sum, item) => sum + price * item.quantity, 0) *)
CartTotal(db, cart) ==
    SumOver(DOMAIN cart,
            [k \in DOMAIN cart |-> db.menu[cart[k].menuItemId].price * cart[k].quantity])

NeedsPreparation(db, cart) ==
    \E k \in DOMAIN cart : db.menu[cart[k].menuItemId].printStation # "NO_PRINT"

InitialStatus(db, orderType, cart) ==
    IF orderType = "QUICK_SALE" /\ ~NeedsPreparation(db, cart) THEN "READY" ELSE "CREATED"

NewItemStatus(db, orderType, m) ==
    IF orderType = "QUICK_SALE" /\ db.menu[m].printStation = "NO_PRINT"
    THEN "SERVED" ELSE "PENDING"

(* prisma.order.create with its nested items: one insert *)
CreateOrderInsert(db, tableId, orderType, surcharges, cart) ==
    LET id == Len(db.orders) + 1
        order == [status |-> InitialStatus(db, orderType, cart),
                  tableId |-> tableId,
                  orderType |-> IF orderType = NULL THEN "DINE_IN" ELSE orderType,
                  surcharges |-> surcharges,
                  discountType |-> NULL,
                  discountValue |-> None,
                  discountReason |-> NULL,
                  totalAmount |-> CartTotal(db, cart) + surcharges]
        rows == [k \in DOMAIN cart |->
                    [orderId |-> id,
                     menuItemId |-> cart[k].menuItemId,
                     price |-> db.menu[cart[k].menuItemId].price,
                     quantity |-> cart[k].quantity,
                     status |-> NewItemStatus(db, orderType, cart[k].menuItemId)]]
    IN  [db EXCEPT !.orders = Append(@, order), !.items = @ \o rows]

(* the table update that follows the insert *)
CreateOrderOccupy(db, tableId, orderType) ==
    IF tableId # NULL /\ orderType = "DINE_IN"
    THEN [db EXCEPT !.tables[tableId].status = "OCCUPIED"]
    ELSE db

CreateOrderH(db, role, tableId, orderType, surcharges, cart) ==
    IF role \notin StaffRoles THEN [db |-> db, resp |-> Unauthorized("CreateOrder")]
    ELSE LET db1 == CreateOrderInsert(db, tableId, orderType, surcharges, cart)
         IN  [db |-> CreateOrderOccupy(db1, tableId, orderType),
              resp |-> [op |-> "CreateOrder", code |-> 201, order |-> Len(db1.orders)]]

----------------------------------------------------------------------------
(* AddItems: POST /api/orders/[id] *)

AddItemsCreate(db, o, m, q) ==
    [db EXCEPT !.items = Append(@, [orderId |-> o, menuItemId |-> m,
                                    price |-> db.menu[m].price, quantity |-> q,
                                    status |-> "PENDING"])]

AddItemsWriteTotal(db, o, newTotal) ==
    [db EXCEPT !.orders[o].totalAmount = newTotal]

AddItemsH(db, role, o, m, q) ==
    IF role \notin StaffRoles THEN [db |-> db, resp |-> Unauthorized("AddItems")]
    ELSE IF ~OrderExists(db, o) THEN [db |-> db, resp |-> Failed("AddItems")]
    ELSE LET db1 == AddItemsCreate(db, o, m, q)
         IN  [db |-> AddItemsWriteTotal(db1, o, ItemsSubtotal(db1, o)),
              resp |-> [op |-> "AddItems", code |-> 201, order |-> o,
                        item |-> Len(db1.items)]]

----------------------------------------------------------------------------
(* TransitionOrderStatus: PUT /api/orders/[id]; role NULL is a request
   without a session *)

PutOrderStatusH(db, role, o, status) ==
    IF role = NULL THEN [db |-> db, resp |-> Unauthorized("PutOrderStatus")]
    ELSE IF ~OrderExists(db, o) THEN [db |-> db, resp |-> Failed("PutOrderStatus")]
    ELSE [db |-> [db EXCEPT !.orders[o].status = status],
          resp |-> [op |-> "PutOrderStatus", code |-> 200, order |-> o]]

----------------------------------------------------------------------------
(* TransitionItemStatus: PUT /api/orders/[id]/items/[itemId] *)

ItemExists(db, i) == i \in DOMAIN db.items /\ db.items[i].status # "DELETED"

AllItemsReady(db, o) == \A j \in OrderItemIds(db, o) : db.items[j].status = "READY"

PutItemStatusH(db, i, status) ==
    IF ~ItemExists(db, i) THEN [db |-> db, resp |-> Failed("PutItemStatus")]
    ELSE LET db1 == [db EXCEPT !.items[i].status = status]
             o == db1.items[i].orderId
             db2 == IF AllItemsReady(db1, o) /\ db1.orders[o].status = "PREPARING"
                    THEN [db1 EXCEPT !.orders[o].status = "READY"]
                    ELSE db1
         IN  [db |-> db2,
              resp |-> [op |-> "PutItemStatus", code |-> 200, item |-> i]]

(* the calls of the handler, one by one *)
PutItemUpdate(db, i, status) == [db EXCEPT !.items[i].status = status]

ShouldMarkReady(db, o) ==
    OrderExists(db, o) /\ AllItemsReady(db, o) /\ db.orders[o].status = "PREPARING"

(* an aggregation whose order update is lost *)
PutItemMarkReady_Dropped(db, o) == db

PutItemMarkReady(db, o) == [db EXCEPT !.orders[o].status = "READY"]

PutItemDone(i) == [op |-> "PutItemStatus", code |-> 200, item |-> i]

----------------------------------------------------------------------------
(* RemoveItem: DELETE /api/orders/[id]/items/[itemId] *)

ItemNotFound(o, i) ==
    [op |-> "RemoveItem", code |-> 404, error |-> "ItemNotFound", order |-> o, item |-> i]
ItemNotRemovable(o, i) ==
    [op |-> "RemoveItem", code |-> 400, error |-> "ItemNotRemovable", order |-> o,
     item |-> i]
RemoveFailed(o, i) ==
    [op |-> "RemoveItem", code |-> 500, error |-> "Failed", order |-> o, item |-> i]
Removed(o, i) ==
    [op |-> "RemoveItem", code |-> 200, error |-> NULL, order |-> o, item |-> i]

RemoveItemDeleteRow(db, i) == [db EXCEPT !.items[i] = DeletedItem]

RemoveItemWriteTotal(db, o, newTotal) == [db EXCEPT !.orders[o].totalAmount = newTotal]

(* the handler with the status check narrowed to SERVED *)
RemoveItemH_OnlyServedKept(db, o, i) ==
    IF ~ItemExists(db, i)
    THEN [db |-> db, resp |-> [op |-> "RemoveItem", code |-> 404,
                               error |-> "ItemNotFound", order |-> o, item |-> i]]
    ELSE IF db.items[i].status = "SERVED"
    THEN [db |-> db, resp |-> [op |-> "RemoveItem", code |-> 400,
                               error |-> "ItemNotRemovable", order |-> o, item |-> i]]
    ELSE LET db1 == [db EXCEPT !.items[i] = DeletedItem]
             db2 == IF OrderExists(db1, o)
                    THEN [db1 EXCEPT !.orders[o].totalAmount = ItemsSubtotal(db1, o)]
                    ELSE db1
         IN  [db |-> db2,
              resp |-> [op |-> "RemoveItem", code |-> 200, error |-> NULL,
                        order |-> o, item |-> i]]

RemoveItemH(db, o, i) ==
    IF ~ItemExists(db, i)
    THEN [db |-> db, resp |-> [op |-> "RemoveItem", code |-> 404,
                               error |-> "ItemNotFound", order |-> o, item |-> i]]
    ELSE IF db.items[i].status # "PENDING"
    THEN [db |-> db, resp |-> [op |-> "RemoveItem", code |-> 400,
                               error |-> "ItemNotRemovable", order |-> o, item |-> i]]
    ELSE LET db1 == [db EXCEPT !.items[i] = DeletedItem]
             db2 == IF OrderExists(db1, o)
                    THEN [db1 EXCEPT !.orders[o].totalAmount = ItemsSubtotal(db1, o)]
                    ELSE db1
         IN  [db |-> db2,
              resp |-> [op |-> "RemoveItem", code |-> 200, error |-> NULL,
                        order |-> o, item |-> i]]

----------------------------------------------------------------------------
(* ApplyDiscount / RemoveDiscount: POST, DELETE /api/orders/discount *)

(* The reasons a request may carry; "" is the absent reason. *)
Reasons == {"", "Bundle Deal", "Meal Deal", "Happy Hour"}

(* reason.toLowerCase().includes('bundle' | 'deal' | 'meal' | 'promotion') *)
IncludesKeyword(reason) == reason \in {"Bundle Deal", "Meal Deal"}

IsBundleDiscount(reason) == reason # "" /\ IncludesKeyword(reason)

(* subtotal * value / 100 for PERCENTAGE, value for FIXED; value is the JS
   number in units of 1/Dollar, a whole number of percent for PERCENTAGE *)
RawDiscount(subtotal, type, value) ==
    IF type = "PERCENTAGE" THEN Percent(subtotal, value \div Dollar)
    ELSE IF type = "FIXED" THEN value
    ELSE 0

(* Math.min(discountAmount, subtotal) *)
ServerDiscountAmount(subtotal, type, value) ==
    Min(RawDiscount(subtotal, type, value), subtotal)

(* Math.max(0, subtotal - discountAmount) *)
DiscountedTotal(subtotal, type, value) ==
    Max(0, subtotal - ServerDiscountAmount(subtotal, type, value))

ApplyDiscountH(db, role, o, type, value, reason) ==
    IF role \notin StaffRoles
    THEN [db |-> db, resp |-> Unauthorized("ApplyDiscount")]
    ELSE IF role = "FLOOR_STAFF" /\ ~IsBundleDiscount(reason)
    THEN [db |-> db, resp |-> [op |-> "ApplyDiscount", code |-> 403,
                               error |-> "Unauthorized"]]
    ELSE IF ~OrderExists(db, o)
    THEN [db |-> db, resp |-> [op |-> "ApplyDiscount", code |-> 404,
                               error |-> "OrderNotFound"]]
    ELSE LET subtotal == ItemsSubtotal(db, o)
         IN  [db |-> [db EXCEPT !.orders[o].discountType = type,
                                !.orders[o].discountValue = Some(value),
                                !.orders[o].discountReason =
                                    IF reason # "" THEN reason ELSE NULL,
                                !.orders[o].totalAmount =
                                    DiscountedTotal(subtotal, type, value)],
              resp |-> [op |-> "ApplyDiscount", code |-> 200, error |-> NULL,
                        order |-> o, subtotal |-> subtotal,
                        discountAmount |->
                            ServerDiscountAmount(subtotal, type, value)]]

RemoveDiscountH(db, role, o) ==
    IF role \notin {"OWNER", "SUPERVISOR"}
    THEN [db |-> db, resp |-> [op |-> "RemoveDiscount", code |-> 403,
                               error |-> "Unauthorized"]]
    ELSE IF ~OrderExists(db, o)
    THEN [db |-> db, resp |-> [op |-> "RemoveDiscount", code |-> 404,
                               error |-> "OrderNotFound"]]
    ELSE [db |-> [db EXCEPT !.orders[o].discountType = NULL,
                            !.orders[o].discountValue = None,
                            !.orders[o].discountReason = NULL,
                            !.orders[o].totalAmount = ItemsSubtotal(db, o)],
          resp |-> [op |-> "RemoveDiscount", code |-> 200, error |-> NULL,
                    order |-> o]]

----------------------------------------------------------------------------
(* The client's totals of a stored order: calculateOrderTotals *)

(* a tax of 10% *)
TaxOn_TenPercent(amount) == Percent(amount, 10)

(* afterDiscount * TAX_RATE, for an amount that is a multiple of 100 units *)
TaxOn(amount) == Percent(amount, TAX_PERCENT)

calculateOrderTotals(db, o) ==
    LET subtotal == ItemsSubtotal(db, o)
        ord == db.orders[o]
        discount ==
            IF ord.discountType # NULL /\ ord.discountValue # None
                                       /\ ord.discountValue # Some(0)
            THEN IF ord.discountType = "PERCENTAGE"
                 THEN Percent(subtotal, ord.discountValue[1] \div Dollar)
                 ELSE ord.discountValue[1]
            ELSE 0
        afterDiscount == subtotal - discount
        tax == TaxOn(afterDiscount)
    IN  [subtotal |-> subtotal, discount |-> discount, tax |-> tax,
         total |-> afterDiscount + tax]

----------------------------------------------------------------------------
(* Catalog: PUT /api/menu/items/[id], the price of updateMenuItemSchema *)

UpdateMenuItemH(db, role, m, price) ==
    IF role \notin {"OWNER", "SUPERVISOR"}
    THEN [db |-> db, resp |-> Unauthorized("UpdateMenuItem")]
    ELSE [db |-> [db EXCEPT !.menu[m].price = price],
          resp |-> [op |-> "UpdateMenuItem", code |-> 200, item |-> m]]

----------------------------------------------------------------------------
(* Table registry: POST /api/tables/merge, POST /api/tables/unmerge,
   PUT /api/tables *)

ABSENT == "ABSENT"

(* the updates of the merge transaction, in the order of the array *)
RECURSIVE MergeLink(_, _, _)
MergeLink(tbls, primary, others) ==
    IF others = <<>> THEN tbls
    ELSE MergeLink([tbls EXCEPT ![Head(others)] =
                        [status |-> "OCCUPIED", mergedWithId |-> primary]],
                   primary, Tail(others))

MergeTables(tbls, ids) ==
    MergeLink([tbls EXCEPT ![ids[1]].status = "OCCUPIED"], ids[1], Tail(ids))

MergeH(db, role, ids) ==
    IF role \notin StaffRoles THEN [db |-> db, resp |-> Unauthorized("Merge")]
    ELSE IF Len(ids) < 2
    THEN [db |-> db, resp |-> [op |-> "Merge", code |-> 400,
                               error |-> "InsufficientTables", ids |-> ids]]
    ELSE [db |-> [db EXCEPT !.tables = MergeTables(@, ids)],
          resp |-> [op |-> "Merge", code |-> 200, error |-> NULL, ids |-> ids]]

(* findMany({ where: { mergedWithId: tableId } }) *)
MergedInto(tbls, t) == {u \in DOMAIN tbls : tbls[u].mergedWithId = t}

(* every table merged into t loses its link and becomes VACANT *)
ReleaseMerged(tbls, t) ==
    [u \in DOMAIN tbls |->
        IF tbls[u].mergedWithId = t
        THEN [status |-> "VACANT", mergedWithId |-> NULL]
        ELSE tbls[u]]

SetTableStatus(tbls, t, status) == [tbls EXCEPT ![t].status = status]

(* an unmerge that releases the satellites and leaves the primary as it is *)
UnmergeTables_SatellitesOnly(tbls, t) == ReleaseMerged(tbls, t)

UnmergeTables(tbls, t) == SetTableStatus(ReleaseMerged(tbls, t), t, "VACANT")

UnmergeH(db, role, t) ==
    IF role \notin StaffRoles THEN [db |-> db, resp |-> Unauthorized("Unmerge")]
    ELSE [db |-> [db EXCEPT !.tables = UnmergeTables(@, t)],
          resp |-> [op |-> "Unmerge", code |-> 200, table |-> t,
                    released |-> MergedInto(db.tables, t)]]

(* prisma.table.update({ where: { id }, data }) with the optional fields
   status and mergedWithId of updateTableSchema *)
UpdateTableH(db, role, t, status, merged) ==
    IF role \notin StaffRoles THEN [db |-> db, resp |-> Unauthorized("UpdateTable")]
    ELSE [db |-> [db EXCEPT
                    !.tables[t].status = IF status = ABSENT THEN @ ELSE status,
                    !.tables[t].mergedWithId = IF merged = ABSENT THEN @ ELSE merged],
          resp |-> [op |-> "UpdateTable", code |-> 200, table |-> t]]

----------------------------------------------------------------------------
(* Settle: POST /api/payments, one operator per Prisma call *)

(* findUnique with include: { table, payment } *)
SettleRead(db, o) ==
    IF ~OrderExists(db, o)
    THEN [found |-> FALSE, payment |-> FALSE, tableId |-> NULL]
    ELSE [found |-> TRUE, payment |-> HasPayment(db, o),
          tableId |-> db.orders[o].tableId]

(* Payment.orderId is unique (the order's payment is a 1:1 relation):
   an insert for an order that has a payment is refused by the database *)
PaymentInsertRefused(db, o) == HasPayment(db, o)

SettleCreatePayment(db, o, amount, method) ==
    [db EXCEPT !.payments = @ \cup {[orderId |-> o, amount |-> amount,
                                     method |-> method]}]

SettleMarkPaid(db, o) == [db EXCEPT !.orders[o].status = "PAID"]

SettleVacate(db, t) == [db EXCEPT !.tables = SetTableStatus(@, t, "VACANT")]

SettleUnmerge(db, t) == [db EXCEPT !.tables = ReleaseMerged(@, t)]

(* a release that vacates the table and leaves the merges into it *)
SettleReleaseTable_VacateOnly(db, t) ==
    IF t # NULL THEN SettleVacate(db, t) ELSE db

(* a release that, for an order without a table, vacates every table *)
SettleReleaseTable_EveryTable(db, t) ==
    IF t # NULL THEN SettleUnmerge(SettleVacate(db, t), t)
    ELSE [db EXCEPT !.tables = [u \in DOMAIN @ |->
                                    [status |-> "VACANT", mergedWithId |-> NULL]]]

SettleReleaseTable(db, t) ==
    IF t # NULL THEN SettleUnmerge(SettleVacate(db, t), t) ELSE db

AlreadyPaid(o) ==
    [op |-> "Settle", code |-> 400, error |-> "AlreadyPaid", order |-> o]
OrderNotFound(o) ==
    [op |-> "Settle", code |-> 404, error |-> "OrderNotFound", order |-> o]
SettleFailed(o) ==
    [op |-> "Settle", code |-> 500, error |-> "Failed", order |-> o]
Settled(o) ==
    [op |-> "Settle", code |-> 201, error |-> NULL, order |-> o]
(* createPaymentSchema: amount must be positive *)
InvalidPayment(o) ==
    [op |-> "Settle", code |-> 400, error |-> "InvalidInput", order |-> o]

SettleH(db, role, o, amount, method) ==
    LET snap == SettleRead(db, o)
    IN  IF role \notin StaffRoles THEN [db |-> db, resp |-> Unauthorized("Settle")]
        ELSE IF amount <= 0 THEN [db |-> db, resp |-> InvalidPayment(o)]
        ELSE IF ~snap.found THEN [db |-> db, resp |-> OrderNotFound(o)]
        ELSE IF snap.payment THEN [db |-> db, resp |-> AlreadyPaid(o)]
        ELSE [db |-> SettleReleaseTable(
                        SettleMarkPaid(SettleCreatePayment(db, o, amount, method), o),
                        snap.tableId),
              resp |-> Settled(o)]

----------------------------------------------------------------------------
(* Serial execution: a request runs to completion before the next starts *)

Slots == {1, 2}
Idle == [kind |-> "idle"]

(* A table that takes part in no merge: it has no link and nothing links to it *)
Unmerged(tbls, t) ==
    /\ tbls[t].mergedWithId = NULL
    /\ \A u \in DOMAIN tbls : tbls[u].mergedWithId # t

(* History of the last accepted request, for the properties that compare the
   state after a request with the state before it.  An accepted ApplyDiscount
   opens a trip and records the order row it found; an accepted Merge opens
   one and records whether the tables it names were all unmerged and the rows
   of the tables it does not name.  The accepted RemoveDiscount of that order
   (Unmerge of that primary) that comes next closes the trip.  An accepted
   Settle records the order's table and the tables that were merged into it.
   Any other request forgets the history. *)
NoTrip == [op |-> "none", closed |-> FALSE]

TripNext(r) ==
    IF r.resp.op = "ApplyDiscount" /\ r.resp.code = 200
    THEN [op |-> "ApplyDiscount", closed |-> FALSE, order |-> r.resp.order,
          pre |-> orders[r.resp.order]]
    ELSE IF r.resp.op = "Merge" /\ r.resp.code = 200
    THEN [op |-> "Merge", closed |-> FALSE, ids |-> r.resp.ids,
          unmerged |-> \A k \in DOMAIN r.resp.ids : Unmerged(tables, r.resp.ids[k]),
          others |-> [u \in TableIds \ {r.resp.ids[k] : k \in DOMAIN r.resp.ids}
                        |-> tables[u]]]
    ELSE IF r.resp.op = "Settle" /\ r.resp.code = 201
    THEN [op |-> "Settle", closed |-> TRUE, order |-> r.resp.order,
          table |-> orders[r.resp.order].tableId,
          satellites |-> MergedInto(tables, orders[r.resp.order].tableId)]
    ELSE IF /\ r.resp.op = "RemoveDiscount" /\ r.resp.code = 200
            /\ trip.op = "ApplyDiscount" /\ ~trip.closed
            /\ trip.order = r.resp.order
    THEN [trip EXCEPT !.closed = TRUE]
    ELSE IF /\ r.resp.op = "Unmerge" /\ r.resp.code = 200
            /\ trip.op = "Merge" /\ ~trip.closed
            /\ trip.ids[1] = r.resp.table
    THEN [trip EXCEPT !.closed = TRUE]
    ELSE NoTrip

Commit(r) ==
    /\ trip' = TripNext(r)
    /\ tables' = r.db.tables
    /\ orders' = r.db.orders
    /\ items' = r.db.items
    /\ payments' = r.db.payments
    /\ menu' = r.db.menu
    /\ resp' = r.resp

Init ==
    /\ tables = TablesInit
    /\ orders = <<>>
    /\ items = <<>>
    /\ payments = {}
    /\ menu = MenuInit
    /\ resp = [op |-> "none", code |-> 0]
    /\ trip = NoTrip
    /\ reqs = [s \in Slots |-> Idle]

(* Inputs *)
Quantities == {1, 2}
Line(m, q) == [menuItemId |-> m, quantity |-> q]
Carts ==
    {<<Line("M1", 1)>>, <<Line("M2", 1)>>,
     <<Line("M1", 2), Line("M2", 1)>>, <<Line("M1", 1), Line("M2", 1)>>}
Surcharges == {0, 50 * Cent}
OrderTypeInputs == OrderTypes \cup {NULL}
DiscountInputs ==
    {[type |-> "FIXED", value |-> 3 * Dollar],
     [type |-> "FIXED", value |-> 50 * Dollar],
     [type |-> "PERCENTAGE", value |-> 10 * Dollar],
     [type |-> "PERCENTAGE", value |-> 150 * Dollar]}
OrderIds == 1..MaxOrders
ItemIds == 1..MaxItems

CreateOrder(role, tableId, orderType, surcharges, cart) ==
    /\ Commit(CreateOrderH(DB, role, tableId, orderType, surcharges, cart))
    /\ UNCHANGED reqs

AddItems(role, o, m, q) ==
    /\ Commit(AddItemsH(DB, role, o, m, q))
    /\ UNCHANGED reqs

PutItemStatus(i, status) ==
    /\ Commit(PutItemStatusH(DB, i, status))
    /\ UNCHANGED reqs

RemoveItem(o, i) ==
    /\ Commit(RemoveItemH(DB, o, i))
    /\ UNCHANGED reqs

ApplyDiscount(role, o, d, reason) ==
    /\ Commit(ApplyDiscountH(DB, role, o, d.type, d.value, reason))
    /\ UNCHANGED reqs

RemoveDiscount(role, o) ==
    /\ Commit(RemoveDiscountH(DB, role, o))
    /\ UNCHANGED reqs

Settle(role, o, amount, method) ==
    /\ Commit(SettleH(DB, role, o, amount, method))
    /\ UNCHANGED reqs

Merge(role, ids) ==
    /\ Commit(MergeH(DB, role, ids))
    /\ UNCHANGED reqs

Unmerge(role, t) ==
    /\ Commit(UnmergeH(DB, role, t))
    /\ UNCHANGED reqs

UpdateTable(role, t, status, merged) ==
    /\ Commit(UpdateTableH(DB, role, t, status, merged))
    /\ UNCHANGED reqs

(* Room for n more item rows, for one more order *)
ItemRoom(n) == Len(items) + n <= MaxItems
OrderRoom == Len(orders) < MaxOrders

(* Pricing: orders without a table, their items and discounts *)
Next ==
    \/ \E ty \in {"TO_GO", "QUICK_SALE"}, s \in Surcharges, cart \in Carts :
            /\ OrderRoom /\ ItemRoom(Len(cart))
            /\ CreateOrder("FLOOR_STAFF", NULL, ty, s, cart)
    \/ \E o \in OrderIds, m \in MenuIds, q \in Quantities :
            /\ ItemRoom(1)
            /\ AddItems("FLOOR_STAFF", o, m, q)
    \/ \E o \in OrderIds, i \in ItemIds : RemoveItem(o, i)
    \/ \E role \in {"OWNER", "FLOOR_STAFF"}, o \in OrderIds, d \in DiscountInputs,
          r \in {"", "Bundle Deal"} :
            ApplyDiscount(role, o, d, r)
    \/ \E role \in {"OWNER", "FLOOR_STAFF"}, o \in OrderIds : RemoveDiscount(role, o)

Spec == Init /\ [][Next]_vars

----------------------------------------------------------------------------
(* Pricing properties *)

(* x rounded to the cent, halves up *)
RoundCent(x) == ((x + Cent \div 2) \div Cent) * Cent

(* subtotal - discountAmount + tax of the spec's pricing formulas, in cents *)
SpecTotal(db, o) ==
    LET subtotal == ItemsSubtotal(db, o)
        ord == db.orders[o]
        discount ==
            IF ord.discountType = NULL THEN 0
            ELSE Min(RawDiscount(subtotal, ord.discountType, ord.discountValue[1]),
                     subtotal)
    IN  RoundCent(subtotal - discount + TaxOn(subtotal - discount))

(* C4: every order's stored totalAmount equals subtotal - discountAmount + tax
   (13% of subtotal - discountAmount), from its current items, in cents. *)
C4_StoredTotalIncludesDiscountAndTax ==
    \A o \in DOMAIN orders : orders[o].totalAmount = SpecTotal(DB, o)

(* C5: the discount amount used is at most the subtotal and the total is never
   negative, in ApplyDiscount's answer and stored total and in the totals the
   client computes from the stored order. *)
C5_DiscountAtMostSubtotal ==
    /\ resp.op = "ApplyDiscount" /\ resp.code = 200
          => /\ resp.discountAmount <= resp.subtotal
             /\ orders[resp.order].totalAmount >= 0
    /\ \A o \in DOMAIN orders :
          LET t == calculateOrderTotals(DB, o)
          IN  t.discount <= t.subtotal /\ t.total >= 0

(* C6: ApplyDiscount on an undiscounted order followed by RemoveDiscount
   leaves totalAmount at the value it had before, and the discount fields
   cleared. *)
C6_ApplyRemoveRestoresTotal ==
    (trip.op = "ApplyDiscount" /\ trip.closed /\ trip.pre.discountType = NULL)
        => /\ orders[trip.order].totalAmount = trip.pre.totalAmount
           /\ orders[trip.order].discountType = NULL
           /\ orders[trip.order].discountValue = None
           /\ orders[trip.order].discountReason = NULL

----------------------------------------------------------------------------
(* Items: creation, status changes and removal of order items *)

NextItems ==
    \/ \E ty \in {"TO_GO", "QUICK_SALE"}, cart \in Carts :
            /\ OrderRoom /\ ItemRoom(Len(cart))
            /\ CreateOrder("FLOOR_STAFF", NULL, ty, 0, cart)
    \/ \E o \in OrderIds, m \in MenuIds, q \in Quantities :
            /\ ItemRoom(1)
            /\ AddItems("FLOOR_STAFF", o, m, q)
    \/ \E i \in ItemIds, st \in ItemStatuses : PutItemStatus(i, st)
    \/ \E o \in 1..(MaxOrders + 1), i \in ItemIds : RemoveItem(o, i)

SpecItems == Init /\ [][NextItems]_vars

DBNext ==
    [tables |-> tables', orders |-> orders', items |-> items',
     payments |-> payments', menu |-> menu']

(* C8: RemoveItem on an item of the order whose status is PREPARING, READY or
   SERVED is answered ItemNotRemovable and changes neither the items nor the
   orders; on a PENDING item it deletes the item, leaves the other items as
   they were, and stores the sum over the remaining items as totalAmount. *)
C8_RemoveItemOnlyWhilePending ==
    [][(/\ resp'.op = "RemoveItem"
        /\ ItemExists(DB, resp'.item)
        /\ items[resp'.item].orderId = resp'.order)
          => IF items[resp'.item].status \in {"PREPARING", "READY", "SERVED"}
             THEN /\ resp'.error = "ItemNotRemovable"
                  /\ items' = items
                  /\ orders' = orders
             ELSE /\ resp'.code = 200
                  /\ ~ItemExists(DBNext, resp'.item)
                  /\ \A j \in DOMAIN items \ {resp'.item} : items'[j] = items[j]
                  /\ orders'[resp'.order].totalAmount =
                        ItemsSubtotal(DBNext, resp'.order)
                  /\ ItemsSubtotal(DBNext, resp'.order) =
                        ItemsSubtotal(DB, resp'.order)
                            - items[resp'.item].price * items[resp'.item].quantity
      ]_vars

(* a RemoveItem was refused for an item that had left PENDING *)
C8_Witness ==
    /\ resp.op = "RemoveItem"
    /\ resp.error = "ItemNotRemovable"
    /\ items[resp.item].status \in {"PREPARING", "READY", "SERVED"}
    /\ items[resp.item].orderId = resp.order

(* the item transitions the specification allows *)
ItemEdges ==
    {<<"PENDING", "PREPARING">>, <<"PREPARING", "READY">>,
     <<"READY", "SERVED">>, <<"PENDING", "READY">>}

(* C14: an item's status changes only along PENDING -> PREPARING,
   PREPARING -> READY, READY -> SERVED or PENDING -> READY; a
   TransitionItemStatus request for any other pair leaves the status as it
   was. *)
C14_ItemStatusForwardOnly ==
    [][\A i \in DOMAIN items :
            (ItemExists(DB, i) /\ ItemExists(DBNext, i)
                /\ items'[i].status # items[i].status)
                => <<items[i].status, items'[i].status>> \in ItemEdges
      ]_vars

(* the discount an order stores, taken off a subtotal *)
StoredDiscountedTotal(ord, subtotal) ==
    IF ord.discountType = NULL THEN subtotal
    ELSE DiscountedTotal(subtotal, ord.discountType, ord.discountValue[1])

(* C28: for an order with surcharges s > 0, the totalAmount stored by an
   accepted AddItems, RemoveItem, ApplyDiscount or RemoveDiscount is the
   order's items (less its discount) plus s. *)
C28_SurchargesStayInTotal ==
    [][\A o \in DOMAIN orders :
            (/\ orders[o].surcharges > 0
             /\ resp'.op \in {"AddItems", "RemoveItem", "ApplyDiscount", "RemoveDiscount"}
             /\ resp'.code \in {200, 201}
             /\ resp'.order = o)
                => orders'[o].totalAmount =
                        StoredDiscountedTotal(orders'[o], ItemsSubtotal(DBNext, o))
                            + orders'[o].surcharges
      ]_vars

(* C23: an item transition to PREPARING on an order whose status is CREATED
   leaves the order PREPARING; and an item transition after which every item
   of a CREATED or PREPARING order is READY leaves the order READY. *)
C23_FirstItemStartsOrder ==
    [][(resp'.op = "PutItemStatus" /\ resp'.code = 200)
          => LET i == resp'.item
                 o == items[i].orderId
             IN  /\ (orders[o].status = "CREATED" /\ items[i].status # "PREPARING"
                        /\ items'[i].status = "PREPARING")
                        => orders'[o].status = "PREPARING"
                 /\ (orders[o].status \in {"CREATED", "PREPARING"}
                        /\ AllItemsReady(DBNext, o))
                        => orders'[o].status = "READY"
      ]_vars

(* the order a step stores, if it stores one *)
StoresOrder == Len(orders') = Len(orders) + 1

(* C24: a CreateOrder stores the order READY exactly when every item of the
   order has the station NO_PRINT, whatever the order type, and CREATED
   otherwise. *)
C24_InitialStatusByStation ==
    [][(resp'.op = "CreateOrder" /\ resp'.code = 201 /\ StoresOrder)
          => LET o == resp'.order
                 noPrep == \A j \in OrderItemIds(DBNext, o) :
                              menu[items'[j].menuItemId].printStation = "NO_PRINT"
             IN  orders'[o].status = IF noPrep THEN "READY" ELSE "CREATED"
      ]_vars

----------------------------------------------------------------------------
(* Table registry: orders at tables, merges, settlement *)

Distinct(ids) == \A j, k \in DOMAIN ids : j # k => ids[j] # ids[k]

MergeInputs ==
    {ids \in {<<"T1">>}
                \cup {<<a, b>> : a \in {"T1", "T2"}, b \in TableIds}
                \cup {<<a, b, c>> : a \in {"T1", "T2"}, b \in TableIds, c \in TableIds} :
        Distinct(ids)}

NextTables ==
    \/ \E t \in {"T1", NULL}, ty \in {"DINE_IN", "TO_GO"} :
            /\ OrderRoom /\ ItemRoom(1)
            /\ (t = NULL <=> ty = "TO_GO")
            /\ CreateOrder("FLOOR_STAFF", t, ty, 0, <<Line("M1", 1)>>)
    \/ \E o \in OrderIds : Settle("FLOOR_STAFF", o, 10 * Dollar, "CASH")
    \/ \E ids \in MergeInputs : Merge("FLOOR_STAFF", ids)
    \/ \E t \in TableIds : Unmerge("FLOOR_STAFF", t)
    \/ UpdateTable("FLOOR_STAFF", "T4", "RESERVED", ABSENT)

SpecTables == Init /\ [][NextTables]_vars

(* C9: when Merge([A, B, C]) was accepted for three distinct tables that took
   part in no merge, and Unmerge(A) is the next request, then A, B and C are
   VACANT with mergedWithId null, and every other table has the row it had
   before the Merge. *)
C9_MergeUnmergeRestoresVacant ==
    (trip.op = "Merge" /\ trip.closed /\ trip.unmerged /\ Len(trip.ids) = 3)
        => /\ \A k \in DOMAIN trip.ids :
                tables[trip.ids[k]] = [status |-> "VACANT", mergedWithId |-> NULL]
           /\ \A u \in DOMAIN trip.others : tables[u] = trip.others[u]

(* Merge of three unmerged tables then Unmerge of the primary has run, the
   Unmerge released both satellites, and the fourth table is not VACANT *)
C9_Witness ==
    /\ trip.op = "Merge" /\ trip.closed /\ trip.unmerged /\ Len(trip.ids) = 3
    /\ resp.op = "Unmerge" /\ resp.table = trip.ids[1]
    /\ resp.released = {trip.ids[2], trip.ids[3]}
    /\ \E u \in DOMAIN trip.others : trip.others[u].status = "RESERVED"

(* C10: after a Settle answered 201 for an order whose table is T, T is VACANT
   and every table that had mergedWithId = T when the request arrived is
   VACANT with mergedWithId null. *)
C10_SettleReleasesTableAndSatellites ==
    (trip.op = "Settle" /\ trip.table # NULL)
        => /\ tables[trip.table].status = "VACANT"
           /\ \A u \in trip.satellites :
                tables[u] = [status |-> "VACANT", mergedWithId |-> NULL]
           /\ MergedInto(tables, trip.table) = {}

(* an order at a table with two satellites was settled *)
C10_Witness ==
    /\ trip.op = "Settle" /\ trip.table # NULL
    /\ resp = Settled(trip.order)
    /\ orders[trip.order].status = "PAID"
    /\ Cardinality(trip.satellites) = 2

(* C11: a Settle answered 201 for an order that has no table leaves every
   table's status and mergedWithId as they were. *)
C11_TablelessSettleLeavesTables ==
    [][(/\ resp'.op = "Settle" /\ resp'.code = 201
        /\ payments' # payments
        /\ orders[resp'.order].tableId = NULL)
          => tables' = tables
      ]_vars

(* an order without a table was settled while tables were merged and
   occupied *)
C11_Witness ==
    /\ trip.op = "Settle" /\ trip.table = NULL
    /\ resp = Settled(trip.order)
    /\ orders[trip.order].orderType = "TO_GO"
    /\ \E u \in TableIds : tables[u].mergedWithId # NULL

(* C12: the merge relation is a star of depth 1: no table that has
   mergedWithId set is the mergedWithId of any table. *)
C12_MergeIsDepthOneStar ==
    \A t \in DOMAIN tables :
        tables[t].mergedWithId # NULL => MergedInto(tables, t) = {}

(* C27: a table that an order in status CREATED, PREPARING, READY or SERVED
   refers to is not VACANT. *)
C27_ActiveOrderTableNotVacant ==
    \A o \in DOMAIN orders :
        (orders[o].status \in ActiveStatuses /\ orders[o].tableId # NULL)
            => tables[orders[o].tableId].status # "VACANT"

----------------------------------------------------------------------------
(* Concurrent execution: two requests in flight, each Prisma call of Settle
   and of AddItems a step of its own, in any interleaving *)

Done(r) == [kind |-> "done", resp |-> r]

(* a step of the request in slot s: the database it leaves, the slot's next
   position *)
ConcCommit(db2, s, slot) ==
    /\ tables' = db2.tables
    /\ orders' = db2.orders
    /\ items' = db2.items
    /\ payments' = db2.payments
    /\ menu' = db2.menu
    /\ reqs' = [reqs EXCEPT ![s] = slot]
    /\ trip' = NoTrip
    /\ UNCHANGED resp

(* role check, findUnique, the 404 and the 'Order already paid' answers *)
BeginSettle(s, role, o, amount, method) ==
    /\ reqs[s] = Idle
    /\ LET snap == SettleRead(DB, o)
       IN  ConcCommit(DB, s,
                IF role \notin StaffRoles THEN Done(Unauthorized("Settle"))
                ELSE IF amount <= 0 THEN Done(InvalidPayment(o))
                ELSE IF ~snap.found THEN Done(OrderNotFound(o))
                ELSE IF snap.payment THEN Done(AlreadyPaid(o))
                ELSE [kind |-> "Settle", pc |-> "createPayment", order |-> o,
                      amount |-> amount, method |-> method,
                      tableId |-> snap.tableId])

(* prisma.payment.create; a refused insert throws into the catch: 500 *)
SettlePayment(s) ==
    /\ reqs[s].kind = "Settle" /\ reqs[s].pc = "createPayment"
    /\ IF PaymentInsertRefused(DB, reqs[s].order)
       THEN ConcCommit(DB, s, Done(SettleFailed(reqs[s].order)))
       ELSE ConcCommit(SettleCreatePayment(DB, reqs[s].order, reqs[s].amount,
                                           reqs[s].method),
                       s, [reqs[s] EXCEPT !.pc = "markPaid"])

(* prisma.order.update status PAID *)
SettleMark(s) ==
    /\ reqs[s].kind = "Settle" /\ reqs[s].pc = "markPaid"
    /\ ConcCommit(SettleMarkPaid(DB, reqs[s].order), s,
                  IF reqs[s].tableId # NULL
                  THEN [reqs[s] EXCEPT !.pc = "vacate"]
                  ELSE Done(Settled(reqs[s].order)))

(* prisma.table.update status VACANT *)
SettleVacateTable(s) ==
    /\ reqs[s].kind = "Settle" /\ reqs[s].pc = "vacate"
    /\ ConcCommit(SettleVacate(DB, reqs[s].tableId), s,
                  [reqs[s] EXCEPT !.pc = "unmerge"])

(* prisma.table.updateMany on the tables merged into the order's table *)
SettleUnmergeTables(s) ==
    /\ reqs[s].kind = "Settle" /\ reqs[s].pc = "unmerge"
    /\ ConcCommit(SettleUnmerge(DB, reqs[s].tableId), s,
                  Done(Settled(reqs[s].order)))

(* role check, menuItem.findUnique, orderItem.create *)
BeginAddItems(s, role, o, m, q) ==
    /\ reqs[s] = Idle
    /\ IF role \notin StaffRoles
       THEN ConcCommit(DB, s, Done(Unauthorized("AddItems")))
       ELSE IF ~OrderExists(DB, o)
       THEN ConcCommit(DB, s, Done(Failed("AddItems")))
       ELSE ConcCommit(AddItemsCreate(DB, o, m, q), s,
                       [kind |-> "AddItems", pc |-> "readOrder", order |-> o,
                        item |-> Len(items) + 1, newTotal |-> 0])

(* order.findUnique include items, and the reduce over them *)
AddItemsRead(s) ==
    /\ reqs[s].kind = "AddItems" /\ reqs[s].pc = "readOrder"
    /\ ConcCommit(DB, s, [reqs[s] EXCEPT !.pc = "writeTotal",
                                         !.newTotal = ItemsSubtotal(DB, reqs[s].order)])

(* order.update totalAmount *)
AddItemsWrite(s) ==
    /\ reqs[s].kind = "AddItems" /\ reqs[s].pc = "writeTotal"
    /\ ConcCommit(AddItemsWriteTotal(DB, reqs[s].order, reqs[s].newTotal), s,
                  Done([op |-> "AddItems", code |-> 201, order |-> reqs[s].order,
                        item |-> reqs[s].item]))

(* the answer of a finished request is taken, the slot is free again *)
Deliver(s) ==
    /\ reqs[s].kind = "done"
    /\ reqs' = [reqs EXCEPT ![s] = Idle]
    /\ resp' = reqs[s].resp
    /\ trip' = NoTrip
    /\ UNCHANGED <<tables, orders, items, payments, menu>>

NextConc ==
    \/ /\ OrderRoom /\ ItemRoom(1)
       /\ CreateOrder("FLOOR_STAFF", "T1", "DINE_IN", 0, <<Line("M1", 1)>>)
    \/ Merge("FLOOR_STAFF", <<"T1", "T2">>)
    \/ \E s \in Slots, o \in OrderIds, method \in Methods :
            BeginSettle(s, "FLOOR_STAFF", o, 10 * Dollar, method)
    \/ \E s \in Slots : SettlePayment(s)
    \/ \E s \in Slots : SettleMark(s)
    \/ \E s \in Slots : SettleVacateTable(s)
    \/ \E s \in Slots : SettleUnmergeTables(s)
    \/ \E s \in Slots, o \in OrderIds, m \in MenuIds :
            /\ Len(items) < MaxConcItems
            /\ BeginAddItems(s, "FLOOR_STAFF", o, m, 1)
    \/ \E s \in Slots : AddItemsRead(s)
    \/ \E s \in Slots : AddItemsWrite(s)
    \/ \E s \in Slots : Deliver(s)

SpecConc == Init /\ [][NextConc]_vars

(* both requests are answered, for the same order, with answers of handler
   op whose codes are in codes *)
BothDone(op, codes) ==
    /\ \A s \in Slots :
            /\ reqs[s].kind = "done"
            /\ reqs[s].resp.op = op
            /\ reqs[s].resp.code \in codes
    /\ reqs[1].resp.order = reqs[2].resp.order

(* C1: when two Settle requests for the same order, both of which found the
   order, have been answered and one of them succeeded, the other answer is
   AlreadyPaid; and no order ever has more than one Payment. *)
C1_ConcurrentSettleOneSucceeds ==
    /\ (/\ BothDone("Settle", {201, 400, 500})
        /\ \E s \in Slots : reqs[s].resp.code = 201)
         => \E s \in Slots :
                /\ reqs[s].resp = Settled(reqs[s].resp.order)
                /\ \A u \in Slots \ {s} : reqs[u].resp = AlreadyPaid(reqs[u].resp.order)
    /\ \A o \in DOMAIN orders :
            Cardinality({p \in payments : p.orderId = o}) <= 1

(* C2: the step that records an order's Payment also leaves the order PAID
   and, when the order has a table, leaves that table VACANT with no table
   merged into it: no state lies between the effects of Settle. *)
C2_SettleAtomic ==
    [][\A o \in DOMAIN orders :
            (~HasPayment(DB, o) /\ HasPayment(DBNext, o))
                => /\ orders'[o].status = "PAID"
                   /\ orders[o].tableId # NULL
                        => /\ tables'[orders[o].tableId].status = "VACANT"
                           /\ MergedInto(tables', orders[o].tableId) = {}
      ]_vars

(* C3: when two AddItems requests for the same order have both been answered
   201, both items are in the order and the stored totalAmount is the sum
   over the order's current items. *)
C3_ConcurrentAddItemsFreshTotal ==
    BothDone("AddItems", {201})
        => /\ \A s \in Slots :
                /\ ItemExists(DB, reqs[s].resp.item)
                /\ items[reqs[s].resp.item].orderId = reqs[s].resp.order
           /\ orders[reqs[1].resp.order].totalAmount =
                    ItemsSubtotal(DB, reqs[1].resp.order)

----------------------------------------------------------------------------
(* The POS page: a cart with bundles, and submitOrder, which sends the cart
   as CreateOrder or AddItems requests followed by an ApplyDiscount *)

(* a BUNDLE promotion as the page holds it: the seed's 'Meal Deal' *)
(* A promotion's id is held as its '-'-separated segments.  The seed's
   'promo-1' has two; an id generated for a promotion created through
   POST /api/promotions is one segment *)
MealDeal ==
    [id |-> <<"promo", "1">>, name |-> "Meal Deal", bundlePrice |-> 12 * Dollar,
     menuItems |-> <<"M1", "M2">>]

BurgerCombo ==
    [id |-> <<"cmb2">>, name |-> "Burger Combo", bundlePrice |-> 12 * Dollar,
     menuItems |-> <<"M1", "M2">>]

Promotions == {MealDeal, BurgerCombo}

(* `bundle-${promo.id}-${Date.now()}`, as segments *)
bundleInstanceId(promo, now) == <<"bundle">> \o promo.id \o <<now>>

CartItem(m, q, bundleId, bundlePrice) ==
    [menuItemId |-> m, quantity |-> q, bundleId |-> bundleId,
     bundlePrice |-> bundlePrice]

(* one cart item per item of the bundle, quantity 1, all with the instance
   id, the bundle price on the first *)
addBundleToCart(cart, promo, instance) ==
    cart \o [k \in DOMAIN promo.menuItems |->
                CartItem(promo.menuItems[k], 1, instance,
                         IF k = 1 THEN Some(promo.bundlePrice) ELSE None)]

CartBundles(cart) == {cart[k].bundleId : k \in DOMAIN cart} \ {None}

(* regular price of the bundle's items minus the bundle price found on the
   bundle's first priced item, summed over the bundles of the cart *)
BundleSavings(db, cart) ==
    SumOver(CartBundles(cart),
        [b \in CartBundles(cart) |->
            LET idx == {k \in DOMAIN cart : cart[k].bundleId = b}
                regularTotal ==
                    SumOver(idx, [k \in DOMAIN cart |->
                        db.menu[cart[k].menuItemId].price * cart[k].quantity])
                priced == {k \in idx : cart[k].bundlePrice # None}
                first == CHOOSE k \in priced : \A j \in priced : k <= j
            IN  IF priced = {} \/ cart[first].bundlePrice = Some(0) THEN 0
                ELSE regularTotal - cart[first].bundlePrice[1]])

(* the name the page finds for a bundle of the cart: the promotion whose id
   is bundleId.split('-')[1], else 'Bundle Deal' *)
bundleName(cart, b) ==
    LET priced == {k \in DOMAIN cart :
                      /\ cart[k].bundleId = b
                      /\ cart[k].bundlePrice \notin {None, Some(0)}}
        promoId == b[2]
        found == {p \in Promotions : p.id = <<promoId>>}
    IN  IF priced # {} /\ found # {} THEN (CHOOSE p \in found : TRUE).name
        ELSE "Bundle Deal"

(* bundleNames.join(', ') for a cart of at most one bundle *)
bundleNames(cart) ==
    IF CartBundles(cart) = {} THEN ""
    ELSE bundleName(cart, CHOOSE b \in CartBundles(cart) : TRUE)

(* selectedTable.orders.find(status in CREATED, PREPARING, READY, SERVED) *)
ActiveOrdersAt(db, t) ==
    {o \in DOMAIN db.orders :
        db.orders[o].tableId = t /\ db.orders[o].status \in ActiveStatuses}

(* the AddItems requests of the cart, one after the other *)
RECURSIVE AddCart(_, _, _, _)
AddCart(db, role, o, cart) ==
    IF cart = <<>> THEN db
    ELSE AddCart(AddItemsH(db, role, o, Head(cart).menuItemId,
                           Head(cart).quantity).db,
                 role, o, Tail(cart))

CartLines(cart) ==
    [k \in DOMAIN cart |-> Line(cart[k].menuItemId, cart[k].quantity)]

(* activeOrder.discountValue || 0 *)
ExistingDiscount(ord) ==
    IF ord.discountValue = None THEN 0 ELSE ord.discountValue[1]

(* the bundle discount is sent as the order's discount plus the savings of
   the cart *)
NewDiscount(ord, bundleSavings) == ExistingDiscount(ord) + bundleSavings

submitOrderH(db, role, t, cart, reason) ==
    LET active == ActiveOrdersAt(db, t)
        bundleSavings == BundleSavings(db, cart)
    IN  IF active # {}
        THEN LET o == CHOOSE x \in active : \A y \in active : x <= y
                 db1 == AddCart(db, role, o, cart)
                 r == ApplyDiscountH(db1, role, o, "FIXED",
                                     NewDiscount(db.orders[o], bundleSavings),
                                     reason)
             IN  [db |-> IF bundleSavings > 0 THEN r.db ELSE db1,
                  resp |-> [op |-> "submitOrder", code |-> 200, order |-> o,
                            added |-> TRUE, bundleSavings |-> bundleSavings,
                            reason |-> reason,
                            discountRes |-> IF bundleSavings > 0 THEN r.resp.code
                                            ELSE 0]]
        ELSE LET c == CreateOrderH(db, role, t, NULL, 0, CartLines(cart))
                 r == ApplyDiscountH(c.db, role, c.resp.order, "FIXED",
                                     bundleSavings, reason)
             IN  [db |-> IF bundleSavings > 0 THEN r.db ELSE c.db,
                  resp |-> [op |-> "submitOrder", code |-> 200,
                            order |-> c.resp.order, added |-> FALSE,
                            bundleSavings |-> bundleSavings,
                            reason |-> reason,
                            discountRes |-> IF bundleSavings > 0 THEN r.resp.code
                                            ELSE 0]]

(* the carts of the page: one bundle, one plain item *)
PosCarts ==
    {addBundleToCart(<<>>, promo, bundleInstanceId(promo, "1")) : promo \in Promotions}
        \cup {<<CartItem("M2", 1, None, None)>>}

submitOrder(role, t, cart) ==
    /\ cart # <<>>
    /\ Commit(submitOrderH(DB, role, t, cart, bundleNames(cart)))
    /\ UNCHANGED reqs

NextBundle ==
    \/ \E cart \in PosCarts :
            /\ Len(items) + Len(cart) <= MaxBundleItems
            /\ (OrderRoom \/ ActiveOrdersAt(DB, "T1") # {})
            /\ submitOrder("FLOOR_STAFF", "T1", cart)
    \/ \E o \in OrderIds, i \in 1..MaxBundleItems : RemoveItem(o, i)
    \/ \E i \in 1..MaxBundleItems, st \in {"PREPARING", "SERVED"} :
            PutItemStatus(i, st)
    \/ \E o \in OrderIds : RemoveDiscount("OWNER", o)

SpecBundle == Init /\ [][NextBundle]_vars

(* C25: when a request stores a DINE_IN order on a table, the table is
   OCCUPIED afterwards; the order type may have been given or left out. *)
C25_DineInOccupiesTable ==
    [][StoresOrder
          => LET ord == orders'[Len(orders')]
             IN  (ord.orderType = "DINE_IN" /\ ord.tableId # NULL)
                    => tables'[ord.tableId].status = "OCCUPIED"
      ]_vars

(* C26: when a FLOOR_STAFF user's submitOrder sends a cart with a bundle of
   an active BUNDLE promotion, whatever the promotion's name and id, the
   discount request for the savings is accepted and the order stores the
   FIXED discount the page asked for. *)
C26_BundleDiscountStoredForFloorStaff ==
    [][(resp'.op = "submitOrder" /\ resp'.bundleSavings > 0)
          => /\ resp'.discountRes = 200
             /\ orders'[resp'.order].discountType = "FIXED"
             /\ orders'[resp'.order].discountValue =
                    Some(IF resp'.added
                         THEN NewDiscount(orders[resp'.order], resp'.bundleSavings)
                         ELSE resp'.bundleSavings)
      ]_vars

(* C7: when submitOrder sends a bundle's items to an order whose discount
   already is that bundle's savings (discountType FIXED, discountReason the
   reason the page sends for the bundle, discountValue the savings), the
   order's discountValue afterwards is those savings, once. *)
C7_BundleDiscountIdempotent ==
    [][(/\ resp'.op = "submitOrder"
        /\ resp'.added
        /\ resp'.bundleSavings > 0
        /\ orders[resp'.order].discountType = "FIXED"
        /\ orders[resp'.order].discountReason = resp'.reason
        /\ orders[resp'.order].discountValue = Some(resp'.bundleSavings))
          => orders'[resp'.order].discountValue = Some(resp'.bundleSavings)
      ]_vars

----------------------------------------------------------------------------
(* Catalog price changes under open orders *)

PriceInputs == {5 * Dollar, 12 * Dollar}

UpdateMenuItem(role, m, price) ==
    /\ Commit(UpdateMenuItemH(DB, role, m, price))
    /\ UNCHANGED reqs

MenuDiscounts ==
    {[type |-> "FIXED", value |-> 3 * Dollar],
     [type |-> "PERCENTAGE", value |-> 10 * Dollar]}

NextMenu ==
    \/ \E cart \in {<<Line("M1", 1)>>, <<Line("M1", 2), Line("M2", 1)>>} :
            /\ OrderRoom /\ ItemRoom(Len(cart))
            /\ CreateOrder("FLOOR_STAFF", NULL, "TO_GO", 0, cart)
    \/ \E price \in PriceInputs : UpdateMenuItem("OWNER", "M1", price)
    \/ \E o \in OrderIds, m \in MenuIds :
            /\ ItemRoom(1)
            /\ AddItems("FLOOR_STAFF", o, m, 1)
    \/ \E o \in OrderIds, i \in ItemIds : RemoveItem(o, i)
    \/ \E o \in OrderIds, d \in MenuDiscounts : ApplyDiscount("OWNER", o, d, "")
    \/ \E o \in OrderIds : RemoveDiscount("OWNER", o)

SpecMenu == Init /\ [][NextMenu]_vars

(* the sum of stored price * quantity over the rows of order o in its *)
StoredSubtotal(its, o) ==
    SumOver({i \in DOMAIN its : its[i].orderId = o},
            [i \in DOMAIN its |-> its[i].price * its[i].quantity])

(* C13: a change of a catalog price changes no order item and no order; an
   order item keeps its stored price for as long as it exists; and the
   totalAmount written by AddItems, RemoveItem, ApplyDiscount and
   RemoveDiscount is computed from the stored prices of the order's items. *)
C13_ItemPriceIsSnapshot ==
    [][/\ resp'.op = "UpdateMenuItem" => items' = items /\ orders' = orders
       /\ \A i \in DOMAIN items :
            ItemExists(DB, i) /\ ItemExists(DBNext, i)
                => items'[i].price = items[i].price
       /\ (resp'.op \in {"AddItems", "RemoveItem", "RemoveDiscount"}
                /\ resp'.code \in {200, 201}
                /\ OrderExists(DBNext, resp'.order))
            => orders'[resp'.order].totalAmount = StoredSubtotal(items', resp'.order)
       /\ (resp'.op = "ApplyDiscount" /\ resp'.code = 200)
            => orders'[resp'.order].totalAmount =
                 DiscountedTotal(StoredSubtotal(items', resp'.order),
                                 orders'[resp'.order].discountType,
                                 orders'[resp'.order].discountValue[1])
      ]_vars

(* a total was recomputed by RemoveItem while a remaining item of the order
   carried a price other than the catalog's *)
C13_Witness ==
    /\ resp.op = "RemoveItem" /\ resp.code = 200
    /\ \E i \in DOMAIN items :
            /\ ItemExists(DB, i)
            /\ items[i].orderId = resp.order
            /\ items[i].price # menu[items[i].menuItemId].price

----------------------------------------------------------------------------
(* Order lifecycle: status requests, items and settlement of one order, and
   the pickup flow of the orders page (pay, then mark SERVED) *)

PutOrderStatus(role, o, status) ==
    /\ Commit(PutOrderStatusH(DB, role, o, status))
    /\ UNCHANGED reqs

(* processPickupPayment, first request: POST /api/payments with the order's
   totalAmount; the page goes on only if the answer is ok *)
PickupPay(s, role, o, method) ==
    /\ reqs[s] = Idle
    /\ OrderExists(DB, o)
    /\ LET r == SettleH(DB, role, o, orders[o].totalAmount, method)
       IN  /\ Commit(r)
           /\ reqs' = [reqs EXCEPT ![s] =
                          IF r.resp.code = 201
                          THEN [kind |-> "pickup", pc |-> "markServed",
                                order |-> o, role |-> role]
                          ELSE Idle]

(* processPickupPayment, second request: PUT status SERVED *)
PickupMarkServed(s) ==
    /\ reqs[s].kind = "pickup"
    /\ Commit(PutOrderStatusH(DB, reqs[s].role, reqs[s].order, "SERVED"))
    /\ reqs' = [reqs EXCEPT ![s] = Idle]

NextLife ==
    \/ /\ OrderRoom /\ ItemRoom(1)
       /\ CreateOrder("FLOOR_STAFF", NULL, "TO_GO", 0, <<Line("M1", 1)>>)
    \/ \E o \in OrderIds, st \in OrderStatuses :
            PutOrderStatus("KITCHEN_STAFF", o, st)
    \/ \E i \in ItemIds, st \in ItemStatuses : PutItemStatus(i, st)
    \/ \E o \in OrderIds, m \in MenuIds :
            /\ ItemRoom(1)
            /\ AddItems("FLOOR_STAFF", o, m, 1)
    \/ \E o \in OrderIds, i \in ItemIds : RemoveItem(o, i)
    \/ \E o \in OrderIds : Settle("FLOOR_STAFF", o, 10 * Dollar, "CARD")
    \/ \E o \in OrderIds : PickupPay(1, "FLOOR_STAFF", o, "CASH")
    \/ PickupMarkServed(1)

SpecLife == Init /\ [][NextLife]_vars

(* the order transitions the specification allows *)
OrderEdges ==
    {<<"CREATED", "PREPARING">>, <<"PREPARING", "READY">>, <<"CREATED", "READY">>,
     <<"READY", "SERVED">>, <<"SERVED", "PAID">>}
        \cup {<<st, "CANCELLED">> : st \in {"CREATED", "PREPARING", "READY", "SERVED"}}

(* C15: a TransitionOrderStatus request changes the order's status only
   along an edge of the order graph; for any other pair the status stays. *)
C15_OrderStatusAlongGraph ==
    [][(resp'.op = "PutOrderStatus" /\ resp'.code = 200
            /\ orders'[resp'.order].status # orders[resp'.order].status)
          => <<orders[resp'.order].status, orders'[resp'.order].status>> \in OrderEdges
      ]_vars

(* C16: an order whose status is PAID or CANCELLED keeps that status. *)
C16_PaidAndCancelledAreTerminal ==
    [][\A o \in DOMAIN orders :
            orders[o].status \in {"PAID", "CANCELLED"}
                => orders'[o].status = orders[o].status
      ]_vars

(* C17: an order whose status is PAID has a Payment. *)
C17_PaidHasPayment ==
    \A o \in DOMAIN orders : orders[o].status = "PAID" => HasPayment(DB, o)

(* C18: AddItems on an order whose status is PAID or CANCELLED is not
   answered 201 and leaves the items and the order as they were. *)
C18_AddItemsOnClosedOrder ==
    [][\A o \in DOMAIN orders :
            (resp'.op = "AddItems" /\ orders[o].status \in {"PAID", "CANCELLED"})
                => /\ ~(resp'.code = 201 /\ resp'.order = o)
                   /\ OrderItemIds(DBNext, o) = OrderItemIds(DB, o)
                   /\ orders'[o] = orders[o]
      ]_vars

(* what an order owes before any tip: its items at their stored prices, less
   the discount, plus tax, plus the surcharges *)
AmountDue(db, o) == calculateOrderTotals(db, o).total + db.orders[o].surcharges

(* C29: a Payment that a Settle records is for what the order owes at that
   moment plus a tip, which is zero or more; the order is not marked PAID
   for any other amount. *)
C29_PaymentIsAmountDue ==
    [][\A p \in payments' \ payments :
            /\ p.amount >= AmountDue(DB, p.orderId)
            /\ resp'.op = "Settle" /\ resp'.code = 201 /\ resp'.order = p.orderId
      ]_vars

(* C21: a Settle that marks an order PAID finds the order SERVED: no order
   goes from CREATED, PREPARING or READY to PAID by a Settle. *)
C21_SettlePaysOnlyServed ==
    [][\A o \in DOMAIN orders :
            (resp'.op = "Settle" /\ resp'.code = 201 /\ resp'.order = o
                /\ orders'[o].status = "PAID" /\ orders[o].status # "PAID")
                => orders[o].status = "SERVED"
      ]_vars

----------------------------------------------------------------------------
(* The kitchen display and the order screen at once: item transitions in both
   slots (markAllReady sends them in parallel), a RemoveItem in slot 1, each
   Prisma call a step of its own *)

(* orderItem.update: a missing row throws into the catch *)
BeginPutItemStatus(s, i, status) ==
    /\ reqs[s] = Idle
    /\ IF ~ItemExists(DB, i)
       THEN ConcCommit(DB, s, Done(Failed("PutItemStatus")))
       ELSE ConcCommit(PutItemUpdate(DB, i, status), s,
                       [kind |-> "PutItemStatus", pc |-> "readOrder", item |-> i,
                        order |-> items[i].orderId, status |-> status,
                        before |-> orders[items[i].orderId].status])

(* order.findUnique include items, allReady and the status test *)
PutItemReadOrder(s) ==
    /\ reqs[s].kind = "PutItemStatus" /\ reqs[s].pc = "readOrder"
    /\ ConcCommit(DB, s,
                  IF ShouldMarkReady(DB, reqs[s].order)
                  THEN [reqs[s] EXCEPT !.pc = "markReady"]
                  ELSE Done(PutItemDone(reqs[s].item)))

(* order.update status READY *)
PutItemWriteReady(s) ==
    /\ reqs[s].kind = "PutItemStatus" /\ reqs[s].pc = "markReady"
    /\ ConcCommit(PutItemMarkReady(DB, reqs[s].order), s,
                  Done(PutItemDone(reqs[s].item)))

(* orderItem.findUnique, the 404 and the PENDING check *)
BeginRemoveItem(s, o, i) ==
    /\ reqs[s] = Idle
    /\ ConcCommit(DB, s,
                  IF ~ItemExists(DB, i) THEN Done(ItemNotFound(o, i))
                  ELSE IF items[i].status # "PENDING" THEN Done(ItemNotRemovable(o, i))
                  ELSE [kind |-> "RemoveItem", pc |-> "delete", order |-> o,
                        item |-> i, newTotal |-> 0])

(* orderItem.delete: a missing row throws into the catch *)
RemoveItemDelete(s) ==
    /\ reqs[s].kind = "RemoveItem" /\ reqs[s].pc = "delete"
    /\ IF ~ItemExists(DB, reqs[s].item)
       THEN ConcCommit(DB, s, Done(RemoveFailed(reqs[s].order, reqs[s].item)))
       ELSE ConcCommit(RemoveItemDeleteRow(DB, reqs[s].item), s,
                       [reqs[s] EXCEPT !.pc = "readOrder"])

(* order.findUnique include items, and the reduce over them *)
RemoveItemRead(s) ==
    /\ reqs[s].kind = "RemoveItem" /\ reqs[s].pc = "readOrder"
    /\ ConcCommit(DB, s,
                  IF OrderExists(DB, reqs[s].order)
                  THEN [reqs[s] EXCEPT !.pc = "writeTotal",
                                       !.newTotal = ItemsSubtotal(DB, reqs[s].order)]
                  ELSE Done(Removed(reqs[s].order, reqs[s].item)))

(* order.update totalAmount *)
RemoveItemWrite(s) ==
    /\ reqs[s].kind = "RemoveItem" /\ reqs[s].pc = "writeTotal"
    /\ ConcCommit(RemoveItemWriteTotal(DB, reqs[s].order, reqs[s].newTotal), s,
                  Done(Removed(reqs[s].order, reqs[s].item)))

(* the tickets on the display: orders of two and of three items *)
KitchenCarts ==
    {<<Line("M1", 1), Line("M2", 1)>>, <<Line("M1", 1), Line("M2", 1), Line("M1", 2)>>}

NextKitchen ==
    \/ \E cart \in KitchenCarts :
            /\ OrderRoom /\ ItemRoom(Len(cart))
            /\ CreateOrder("FLOOR_STAFF", NULL, "TO_GO", 0, cart)
    \/ \E o \in OrderIds, st \in {"PREPARING", "READY"} :
            /\ PutOrderStatus("KITCHEN_STAFF", o, st)
    \/ \E s \in Slots, i \in ItemIds, st \in {"PREPARING", "READY"} :
            BeginPutItemStatus(s, i, st)
    \/ \E s \in Slots : PutItemReadOrder(s)
    \/ \E s \in Slots : PutItemWriteReady(s)
    \/ \E o \in OrderIds, i \in ItemIds : BeginRemoveItem(1, o, i)
    \/ RemoveItemDelete(1)
    \/ RemoveItemRead(1)
    \/ RemoveItemWrite(1)
    \/ \E s \in Slots : Deliver(s)

SpecKitchen == Init /\ [][NextKitchen]_vars

(* slot s answers its item transition in this step *)
PutItemAnswered(s) ==
    /\ reqs[s].kind = "PutItemStatus"
    /\ reqs'[s].kind = "done"
    /\ reqs'[s].resp.code = 200

(* C22: when an item transition that found its order PREPARING is answered
   and no other item transition is still in flight, the order is READY if
   every item of the order is READY; the transitions of the order's items may
   have run one after the other or interleaved. *)
C22_AllReadyMakesOrderReady ==
    [][\A s \in Slots :
            (/\ PutItemAnswered(s)
             /\ reqs[s].before = "PREPARING"
             /\ \A u \in Slots \ {s} : reqs'[u].kind # "PutItemStatus"
             /\ AllItemsReady(DBNext, reqs[s].order))
                => orders'[reqs[s].order].status = "READY"
      ]_vars

(* two transitions of different items of a PREPARING order ran interleaved,
   both found every item READY; one has written READY and answered, the other
   has still to write *)
C22_Witness ==
    /\ reqs[1].kind = "done" /\ reqs[1].resp.op = "PutItemStatus"
    /\ reqs[1].resp.code = 200
    /\ reqs[2].kind = "PutItemStatus" /\ reqs[2].pc = "markReady"
    /\ reqs[2].before = "PREPARING"
    /\ reqs[1].resp.item # reqs[2].item
    /\ ItemExists(DB, reqs[1].resp.item)
    /\ items[reqs[1].resp.item].orderId = reqs[2].order
    /\ Cardinality(OrderItemIds(DB, reqs[2].order)) = 2
    /\ AllItemsReady(DB, reqs[2].order)
    /\ orders[reqs[2].order].status = "READY"

(* C30: with a RemoveItem and an item transition on the same item in
   flight together, an item is deleted only in a step that finds its status
   PENDING, and when the RemoveItem is answered 200 the order's totalAmount
   is the sum over its remaining items. *)
C30_RemoveRacesTransition ==
    [][/\ \A i \in DOMAIN items :
            (ItemExists(DB, i) /\ ~ItemExists(DBNext, i))
                => items[i].status = "PENDING"
       /\ \A s \in Slots :
            (/\ reqs[s].kind = "RemoveItem"
             /\ reqs'[s].kind = "done"
             /\ reqs'[s].resp.code = 200
             /\ OrderExists(DBNext, reqs[s].order))
                => orders'[reqs[s].order].totalAmount =
                        ItemsSubtotal(DBNext, reqs[s].order)
      ]_vars

----------------------------------------------------------------------------
(* Discount requests by callers of every role; no cart and no bundle is
   involved, every ApplyDiscount here is a request made by hand *)

(* the session of the last discount request *)
Caller(role) == [kind |-> "caller", role |-> role]

ApplyDiscountAs(role, o, d, reason) ==
    /\ Commit(ApplyDiscountH(DB, role, o, d.type, d.value, reason))
    /\ reqs' = [reqs EXCEPT ![1] = Caller(role)]

RemoveDiscountAs(role, o) ==
    /\ Commit(RemoveDiscountH(DB, role, o))
    /\ reqs' = [reqs EXCEPT ![1] = Caller(role)]

NextAuth ==
    \/ \E cart \in Carts :
            /\ OrderRoom /\ ItemRoom(Len(cart))
            /\ CreateOrder("FLOOR_STAFF", NULL, "TO_GO", 0, cart)
    \/ \E role \in Roles, o \in OrderIds, d \in DiscountInputs, reason \in Reasons :
            ApplyDiscountAs(role, o, d, reason)
    \/ \E role \in Roles, o \in OrderIds : RemoveDiscountAs(role, o)

SpecAuth == Init /\ [][NextAuth]_vars

(* C19: an ApplyDiscount request made by hand, or a RemoveDiscount request,
   for an existing order by a caller who is neither OWNER nor SUPERVISOR is
   refused as unauthorized and leaves the orders as they were, whatever its
   discountReason. *)
C19_DiscountNeedsElevatedRole ==
    [][(/\ resp'.op \in {"ApplyDiscount", "RemoveDiscount"}
        /\ resp'.code # 404
        /\ reqs'[1].kind = "caller"
        /\ reqs'[1].role \notin {"OWNER", "SUPERVISOR"})
          => /\ resp'.code \in {401, 403}
             /\ orders' = orders
      ]_vars

----------------------------------------------------------------------------
(* The bill the POS page shows for a stored order *)

(* x.toFixed(2): the amount rounded to the cent, a half cent rounded up (the
   doubles of the amounts that arise here lie just above their half cent) *)
toFixed2(x) == ((x + Cent \div 2) \div Cent) * Cent

(* the four lines of the bill: calculateOrderTotals, each shown toFixed(2) *)
Bill(db, o) ==
    LET t == calculateOrderTotals(db, o)
    IN  [subtotal |-> toFixed2(t.subtotal), discount |-> toFixed2(t.discount),
         tax |-> toFixed2(t.tax), total |-> toFixed2(t.total)]

(* the order's items are {price 10.00, qty 2} and {price 5.00, qty 1} *)
ScenarioItems(db, o) ==
    /\ Cardinality(OrderItemIds(db, o)) = 2
    /\ \E i, j \in OrderItemIds(db, o) :
            /\ db.items[i].price = 10 * Dollar /\ db.items[i].quantity = 2
            /\ db.items[j].price = 5 * Dollar /\ db.items[j].quantity = 1

(* orders, their items and discounts, as the bill dialog finds them *)
NextBill ==
    \/ \E cart \in Carts :
            /\ OrderRoom /\ ItemRoom(Len(cart))
            /\ CreateOrder("FLOOR_STAFF", NULL, "TO_GO", 0, cart)
    \/ \E o \in OrderIds, m \in MenuIds, q \in Quantities :
            /\ ItemRoom(1)
            /\ AddItems("FLOOR_STAFF", o, m, q)
    \/ \E o \in OrderIds, d \in MenuDiscounts : ApplyDiscount("OWNER", o, d, "")
    \/ \E o \in OrderIds : RemoveDiscount("OWNER", o)

SpecBill == Init /\ [][NextBill]_vars

(* C20: for an order with items {10.00 x 2} and {5.00 x 1}: with a stored
   10% PERCENTAGE discount the bill is subtotal 25.00, discount 2.50, tax
   2.93, total 25.43, and ApplyDiscount of 10% answers subtotal 25.00 and
   discount 2.50 and stores the taxable amount 22.50; with no discount the
   bill is subtotal 25.00, tax 3.25, total 28.25. *)
C20_ScenarioTotals ==
    \A o \in DOMAIN orders :
        ScenarioItems(DB, o) =>
            /\ (orders[o].discountType = "PERCENTAGE"
                    /\ orders[o].discountValue = Some(10 * Dollar))
                => /\ Bill(DB, o) = [subtotal |-> 25 * Dollar,
                                     discount |-> 250 * Cent,
                                     tax |-> 293 * Cent,
                                     total |-> 2543 * Cent]
                   /\ calculateOrderTotals(DB, o).tax = 2925 * (Cent \div 10)
                   /\ (resp.op = "ApplyDiscount" /\ resp.code = 200
                            /\ resp.order = o)
                        => /\ resp.subtotal = 25 * Dollar
                           /\ resp.discountAmount = 250 * Cent
                           /\ orders[o].totalAmount = 2250 * Cent
            /\ orders[o].discountType = NULL
                => Bill(DB, o) = [subtotal |-> 25 * Dollar, discount |-> 0,
                                 tax |-> 325 * Cent, total |-> 2825 * Cent]

(* the 10% discount was just applied to the scenario's order *)
C20_Witness ==
    /\ resp.op = "ApplyDiscount" /\ resp.code = 200
    /\ ScenarioItems(DB, resp.order)
    /\ orders[resp.order].discountType = "PERCENTAGE"
    /\ orders[resp.order].discountValue = Some(10 * Dollar)
    /\ Bill(DB, resp.order).total = 2543 * Cent

====
